---------------------------- MODULE Spec2Model ----------------------------
(***************************************************************************)
(* Model of the runtime orchestration engine of the UIT voice assistant:   *)
(*   - WakeWordDetector   (src/voice/wake_word.py)                         *)
(*   - VoiceAssistant     (src/assistant.py): start/stop, the wake         *)
(*     callback _on_wake_word and the session loop _conversation_loop      *)
(*   - HybridPipeline     (src/rag/hybrid_pipeline.py): the query router   *)
(*                                                                         *)
(* Text is modelled as a sequence of one-character strings, so that        *)
(* strip(), lower(), split() and the substring test `w in q` are computed  *)
(* the way Python computes them.                                           *)
(***************************************************************************)
EXTENDS Naturals, Sequences, FiniteSets

VARIABLES
    det_running,          \* WakeWordDetector._running
    det_paused,           \* WakeWordDetector._paused
    det_thread,           \* WakeWordDetector._thread (0 is None, else a thread id)
    pc,                   \* position of every _listen_loop thread
    detected,             \* local `detected` of every _listen_loop thread
    consecutive_silence,  \* local of _conversation_loop, per executing thread
    va_running,           \* VoiceAssistant._running
    active_session,       \* VoiceAssistant._active_session
    ctl,                  \* position of the thread that calls start()/stop()
    stop_returned,        \* history: detector stop() returned, no start() since
    log,                  \* history: what the sessions did, in order
    rag_available,        \* HybridPipeline._rag_available
    query,                \* the last call of HybridPipeline.answer: its inputs
    route,                \* the last call of HybridPipeline.answer: its outcome
    start_effect,         \* history: what the last WakeWordDetector.start() did
    bg_speaking,          \* a speak call has returned with its speech unfinished
    flag_call,            \* history: the last recorded pause() or resume() call
    http,                 \* what the HTTP request of a call_ollama call does
    reply,                \* the outcome of that call_ollama call
    heard,                \* a capture cycle: the phrases configured, the recognition
    reported              \* what listen_for_wake_word returned in that cycle,
                          \* as a sequence: empty until it has returned

vars == << det_running, det_paused, det_thread, pc, detected,
           consecutive_silence, va_running, active_session, ctl,
           stop_returned, log, rag_available, query, route, start_effect,
           bg_speaking, flag_call, http, reply, heard, reported >>

detector_vars == << det_running, det_paused, det_thread >>
router_vars == << rag_available, query, route >>
llm_vars == << http, reply >>
wake_vars == << heard, reported >>

-----------------------------------------------------------------------------
(* Bounds of the model.                                                    *)

\* loop threads that may be alive at once (start() after a timed-out join)
MaxThreads == 2
\* listens one session may perform
MaxTurns == 4
\* fragments concatenated into one question text
MaxParts == 2
\* calls of answer() on one pipeline, one after the other
MaxCalls == 3

\* the longest list of trigger phrases a detector is configured with
MaxPhrases == 2

Threads == 1..MaxThreads

-----------------------------------------------------------------------------
(* Text: str.strip(), str.lower(), str.split(), `sub in s`.                *)

Whitespace == {" ", "\t", "\n"}

UpperCase == << "A", "B", "C", "D", "E", "F", "G", "H", "I", "J", "K", "L", "M",
                "N", "O", "P", "Q", "R", "S", "T", "U", "V", "W", "X", "Y", "Z" >>
LowerCase == << "a", "b", "c", "d", "e", "f", "g", "h", "i", "j", "k", "l", "m",
                "n", "o", "p", "q", "r", "s", "t", "u", "v", "w", "x", "y", "z" >>

LowerChar(c) ==
    IF \E i \in 1..Len(UpperCase) : UpperCase[i] = c
    THEN LowerCase[CHOOSE i \in 1..Len(UpperCase) : UpperCase[i] = c]
    ELSE c

\* str.lower()
Lower(s) == [i \in 1..Len(s) |-> LowerChar(s[i])]

\* str.strip(): drop leading and trailing whitespace
Strip(s) ==
    LET keep == {i \in 1..Len(s) : s[i] \notin Whitespace}
    IN  IF keep = {} THEN << >>
        ELSE LET first == CHOOSE i \in keep : \A j \in keep : i <= j
                 last  == CHOOSE i \in keep : \A j \in keep : j <= i
             IN  SubSeq(s, first, last)

\* `sub in s` on Python strings: sub occurs as a contiguous substring of s
Contains(sub, s) ==
    \E i \in 0..(Len(s) - Len(sub)) :
        Len(sub) <= Len(s) /\ SubSeq(s, i + 1, i + Len(sub)) = sub

\* len(s.split()): the number of maximal runs of non-whitespace characters
WordCount(s) ==
    Cardinality({i \in 1..Len(s) :
        /\ s[i] \notin Whitespace
        /\ (i = 1 \/ s[i - 1] \in Whitespace)})

\* any(w in q for w in phrases)
AnyIn(phrases, q) == \E k \in 1..Len(phrases) : Contains(phrases[k], q)

-----------------------------------------------------------------------------
(* HybridPipeline (src/rag/hybrid_pipeline.py)                             *)

TimePhrases ==
    << <<"w", "h", "a", "t", " ", "t", "i", "m", "e">>,
       <<"c", "u", "r", "r", "e", "n", "t", " ", "t", "i", "m", "e">>,
       <<"t", "e", "l", "l", " ", "m", "e", " ", "t", "h", "e", " ", "t", "i", "m", "e">> >>

DatePhrases ==
    << <<"w", "h", "a", "t", " ", "d", "a", "t", "e">>,
       <<"t", "o", "d", "a", "y", "'", "s", " ", "d", "a", "t", "e">>,
       <<"w", "h", "a", "t", " ", "d", "a", "y">> >>

FarewellPhrases ==
    << <<"s", "t", "o", "p", " ", "l", "i", "s", "t", "e", "n", "i", "n", "g">>,
       <<"g", "o", " ", "t", "o", " ", "s", "l", "e", "e", "p">>,
       <<"g", "o", "o", "d", "b", "y", "e">>,
       <<"b", "y", "e">> >>

\* the texts answer() and the session produce themselves
EXIT == "__EXIT__"
ClarificationText == "I didn't catch that. Could you repeat?"
TimeText == "The current time is <now>."
DateText == "Today is <now>."

\* what the generator (call_ollama) may return: any text
GenTexts == {"<generated answer>", "__EXIT__"}

\* texts of retrieved passages: n words, separated by `sep` blanks each
Passage(n, sep) ==
    [i \in 1..(n * (sep + 1)) |-> IF i % (sep + 1) = 1 THEN "x" ELSE " "]

\* what retriever.retrieve may do: raise, or return a list of contexts
RetrOutcomes ==
    { [raises |-> TRUE,  contexts |-> << >>],
      [raises |-> FALSE, contexts |-> << >>],
      [raises |-> FALSE, contexts |-> << [text |-> Passage(20, 1)] >>],
      [raises |-> FALSE, contexts |-> << [text |-> Passage(21, 1)] >>],
      [raises |-> FALSE, contexts |-> << [text |-> Passage(3, 1)],
                                         [text |-> Passage(25, 1)] >>],
      [raises |-> FALSE, contexts |-> << [text |-> Passage(11, 2)],
                                         [text |-> << >>] >>] }

\* mutant of is_relevant: `>=` for `>` on line 90
is_relevant_ge(contexts) ==
    /\ contexts # << >>
    /\ \E k \in 1..Len(contexts) : WordCount(contexts[k].text) >= 20

\* _is_relevant: some context has more than 20 words
is_relevant(contexts) ==
    /\ contexts # << >>
    /\ \E k \in 1..Len(contexts) : WordCount(contexts[k].text) > 20

NoCommand == [matched |-> FALSE, kind |-> "None", text |-> "None"]

\* mutant of handle_system_commands: the date test comes before the time test
handle_system_commands_date_first(question) ==
    LET q == Lower(question)
    IN  IF AnyIn(DatePhrases, q)
            THEN [matched |-> TRUE, kind |-> "Date", text |-> DateText]
        ELSE IF AnyIn(TimePhrases, q)
            THEN [matched |-> TRUE, kind |-> "Time", text |-> TimeText]
        ELSE IF AnyIn(FarewellPhrases, q)
            THEN [matched |-> TRUE, kind |-> "Exit", text |-> EXIT]
        ELSE [matched |-> FALSE, kind |-> "None", text |-> "None"]

\* mutant of handle_system_commands: the question is not lower-cased
handle_system_commands_nolower(question) ==
    LET q == question
    IN  IF AnyIn(TimePhrases, q)
            THEN [matched |-> TRUE, kind |-> "Time", text |-> TimeText]
        ELSE IF AnyIn(DatePhrases, q)
            THEN [matched |-> TRUE, kind |-> "Date", text |-> DateText]
        ELSE IF AnyIn(FarewellPhrases, q)
            THEN [matched |-> TRUE, kind |-> "Exit", text |-> EXIT]
        ELSE [matched |-> FALSE, kind |-> "None", text |-> "None"]

\* _handle_system_commands: time, then date, then farewell
handle_system_commands(question) ==
    LET q == Lower(question)
    IN  IF AnyIn(TimePhrases, q)
            THEN [matched |-> TRUE, kind |-> "Time", text |-> TimeText]
        ELSE IF AnyIn(DatePhrases, q)
            THEN [matched |-> TRUE, kind |-> "Date", text |-> DateText]
        ELSE IF AnyIn(FarewellPhrases, q)
            THEN [matched |-> TRUE, kind |-> "Exit", text |-> EXIT]
        ELSE NoCommand

Outcome(kind, text, retrieves, generator) ==
    [kind |-> kind, text |-> text, retrieves |-> retrieves, generator |-> generator]

\* mutant of answer: the retriever is consulted before the command check
answer_retrieve_first(question0, rag, retr, gen) ==
    LET question == Strip(question0)
        system_response == handle_system_commands(question)
        calls == IF rag THEN 1 ELSE 0
    IN  IF question = << >>
            THEN Outcome("Clarification", ClarificationText, 0, "none")
        ELSE IF rag /\ ~retr.raises /\ is_relevant(retr.contexts)
            THEN Outcome("Grounded", gen, calls, "with_context")
        ELSE IF system_response.matched
            THEN Outcome(system_response.kind, system_response.text, calls, "none")
        ELSE Outcome("General", gen, calls, "general")

\* mutant of answer: the question is not stripped (line 49)
answer_nostrip(question0, rag, retr, gen) ==
    LET question == question0
        system_response == handle_system_commands(question)
    IN  IF question = << >>
            THEN Outcome("Clarification", ClarificationText, 0, "none")
        ELSE IF system_response.matched
            THEN Outcome(system_response.kind, system_response.text, 0, "none")
        ELSE IF rag
            THEN IF retr.raises
                     THEN Outcome("General", gen, 1, "general")
                 ELSE IF retr.contexts # << >> /\ is_relevant(retr.contexts)
                     THEN Outcome("Grounded", gen, 1, "with_context")
                 ELSE Outcome("General", gen, 1, "general")
        ELSE Outcome("General", gen, 0, "general")

\* mutant of answer: no try/except around retrieve (lines 60, 73-75)
answer_propagates(question0, rag, retr, gen) ==
    LET question == Strip(question0)
        system_response == handle_system_commands(question)
    IN  IF question = << >>
            THEN Outcome("Clarification", ClarificationText, 0, "none")
        ELSE IF system_response.matched
            THEN Outcome(system_response.kind, system_response.text, 0, "none")
        ELSE IF rag
            THEN IF retr.raises
                     THEN Outcome("Raised", "None", 1, "none")
                 ELSE IF retr.contexts # << >> /\ is_relevant(retr.contexts)
                     THEN Outcome("Grounded", gen, 1, "with_context")
                 ELSE Outcome("General", gen, 1, "general")
        ELSE Outcome("General", gen, 0, "general")

\* mutant of answer: the generated text is inspected for the exit marker
answer_gen_decides(question0, rag, retr, gen) ==
    LET question == Strip(question0)
        system_response == handle_system_commands(question)
        general == IF gen = EXIT THEN "Exit" ELSE "General"
    IN  IF question = << >>
            THEN Outcome("Clarification", ClarificationText, 0, "none")
        ELSE IF system_response.matched
            THEN Outcome(system_response.kind, system_response.text, 0, "none")
        ELSE IF rag
            THEN IF retr.raises
                     THEN Outcome(general, gen, 1, "general")
                 ELSE IF retr.contexts # << >> /\ is_relevant(retr.contexts)
                     THEN Outcome("Grounded", gen, 1, "with_context")
                 ELSE Outcome(general, gen, 1, "general")
        ELSE Outcome(general, gen, 0, "general")

\* answer(): `rag` is _rag_available, `retr` what retrieve would do if called,
\* `gen` the text the generator would return if called.  The outcome names
\* the decision, the returned text, the number of retrieve calls made and the
\* generator function called ("none", "with_context", "general").
answer(question0, rag, retr, gen) ==
    LET question == Strip(question0)
        system_response == handle_system_commands(question)
    IN  IF question = << >>
            THEN Outcome("Clarification", ClarificationText, 0, "none")
        ELSE IF system_response.matched
            THEN Outcome(system_response.kind, system_response.text, 0, "none")
        ELSE IF rag
            THEN IF retr.raises
                     THEN Outcome("General", gen, 1, "general")
                 ELSE IF retr.contexts # << >> /\ is_relevant(retr.contexts)
                     THEN Outcome("Grounded", gen, 1, "with_context")
                 ELSE Outcome("General", gen, 1, "general")
        ELSE Outcome("General", gen, 0, "general")

-----------------------------------------------------------------------------
(* The session log (history).  An event is a record; a spoken line carries *)
(* its text.                                                               *)

Ev(e, a) == [ev |-> e, arg |-> a]

AckText == "Yes, I'm listening."
RepromptText == "I didn't hear anything. I'm still listening."
SignoffText == "Okay, going back to sleep. Say the wake word when you need me."
FallbackText == "I'll go back to listening for the wake word."
ApologyText == "Sorry, something went wrong. Please try again."

\* the log extended by the events es, when the run records (rec)
Logged(rec, es) == IF rec THEN log \o es ELSE log

\* listens the recorded session has performed
Turns == Cardinality({i \in 1..Len(log) : log[i].ev = "heard"})

\* what stt.listen may return to a session: None or one of these transcripts
SessionQuestions ==
    { <<"b", "y", "e">>,
      <<"W", "h", "a", "t", " ", "T", "i", "m", "e">>,
      <<"l", "i", "b", "r", "a", "r", "y">> }

\* what the retriever may do for a session's question
SessionRetr ==
    { r \in RetrOutcomes : r.raises \/ (r.contexts # << >> /\ Len(r.contexts) = 1) }

-----------------------------------------------------------------------------
(* WakeWordDetector._listen_loop (src/voice/wake_word.py:69-89), one step  *)
(* per read or write of shared state and per blocking call.                *)

Goto(t, l) == pc' = [pc EXCEPT ![t] = l]

\* the positions inside on_wake (VoiceAssistant._on_wake_word)
OnWakePcs ==
    {"ow_guard", "ow_set", "ack", "loopcond", "listen", "reprompt", "answer",
     "signoff", "fallback", "apology", "ow_finally", "ow_raise"}

\* line 71: while self._running
listen_loop_while(t) ==
    /\ pc[t] = "while"
    /\ Goto(t, IF det_running THEN "ifpaused" ELSE "done")
    /\ UNCHANGED << detector_vars, detected, consecutive_silence, va_running,
                    active_session, ctl, stop_returned, log, router_vars,
                    llm_vars, wake_vars, start_effect, bg_speaking,
                    flag_call >>

\* line 72: if self._paused
listen_loop_ifpaused(t) ==
    /\ pc[t] = "ifpaused"
    /\ Goto(t, IF det_paused THEN "sleep" ELSE "capture")
    /\ UNCHANGED << detector_vars, detected, consecutive_silence, va_running,
                    active_session, ctl, stop_returned, log, router_vars,
                    llm_vars, wake_vars, start_effect, bg_speaking,
                    flag_call >>

\* mutant of listen_loop_sleep: the loop waits for resume() without testing
\* _running again (while self._paused: time.sleep(0.3))
listen_loop_sleep_spin(t) ==
    /\ pc[t] = "sleep"
    /\ Goto(t, "ifpaused")
    /\ UNCHANGED << detector_vars, detected, consecutive_silence, va_running,
                    active_session, ctl, stop_returned, log, router_vars,
                    llm_vars, wake_vars, start_effect, bg_speaking,
                    flag_call >>

\* lines 73-74: time.sleep(0.3); continue
listen_loop_sleep(t) ==
    /\ pc[t] = "sleep"
    /\ Goto(t, "while")
    /\ UNCHANGED << detector_vars, detected, consecutive_silence, va_running,
                    active_session, ctl, stop_returned, log, router_vars,
                    llm_vars, wake_vars, start_effect, bg_speaking,
                    flag_call >>

\* line 77: stt.listen_for_wake_word returns True or False
listen_loop_capture(t) ==
    /\ pc[t] = "capture"
    /\ \E d \in BOOLEAN : detected' = [detected EXCEPT ![t] = d]
    /\ Goto(t, "check")
    /\ UNCHANGED << detector_vars, consecutive_silence, va_running,
                    active_session, ctl, stop_returned, log, router_vars,
                    llm_vars, wake_vars, start_effect, bg_speaking,
                    flag_call >>

\* mutant of listen_loop_capture_raises: no outer try (lines 76, 87-89), the
\* exception ends the thread
listen_loop_capture_raises_fatal(t) ==
    /\ pc[t] = "capture"
    /\ Goto(t, "done")
    /\ UNCHANGED << detector_vars, detected, consecutive_silence, va_running,
                    active_session, ctl, stop_returned, log, router_vars,
                    llm_vars, wake_vars, start_effect, bg_speaking,
                    flag_call >>

\* lines 77, 87-89: the capture call raises; log, sleep(1), next iteration
listen_loop_capture_raises(t) ==
    /\ pc[t] = "capture"
    /\ Goto(t, "backoff")
    /\ UNCHANGED << detector_vars, detected, consecutive_silence, va_running,
                    active_session, ctl, stop_returned, log, router_vars,
                    llm_vars, wake_vars, start_effect, bg_speaking,
                    flag_call >>

\* line 89: time.sleep(1)
listen_loop_backoff(t) ==
    /\ pc[t] = "backoff"
    /\ Goto(t, "while")
    /\ UNCHANGED << detector_vars, detected, consecutive_silence, va_running,
                    active_session, ctl, stop_returned, log, router_vars,
                    llm_vars, wake_vars, start_effect, bg_speaking,
                    flag_call >>

\* mutant of WakeAccepted: line 78 tests `detected` only
WakeAccepted_detected_only(t) == detected[t]

\* the condition of line 78
WakeAccepted(t) == detected[t] /\ det_running /\ ~det_paused

\* line 78: if detected and self._running and not self._paused
\* (`detected` is dead after the test; the model clears it)
listen_loop_check(t) ==
    /\ pc[t] = "check"
    /\ Goto(t, IF WakeAccepted(t) THEN "invoke" ELSE "while")
    /\ detected' = [detected EXCEPT ![t] = FALSE]
    /\ UNCHANGED << detector_vars, consecutive_silence, va_running,
                    active_session, ctl, stop_returned, log, router_vars,
                    llm_vars, wake_vars, start_effect, bg_speaking,
                    flag_call >>

\* lines 79-82: self._paused = True; self.on_wake() is entered
listen_loop_invoke(t, rec) ==
    /\ pc[t] = "invoke"
    /\ det_paused' = TRUE
    /\ Goto(t, "ow_guard")
    /\ log' = IF rec THEN << Ev("paused", "") >> ELSE log
    /\ UNCHANGED << det_running, det_thread, detected, consecutive_silence,
                    va_running, active_session, ctl, stop_returned,
                    router_vars, llm_vars, wake_vars, start_effect,
                    bg_speaking,
                    flag_call >>

\* mutant of listen_loop_finally: no finally block (lines 85-86)
listen_loop_finally_noreset(t, rec) ==
    /\ pc[t] = "finally"
    /\ Goto(t, "while")
    /\ log' = Logged(rec, << Ev("unpaused", "") >>)
    /\ UNCHANGED << detector_vars, detected, consecutive_silence, va_running,
                    active_session, ctl, stop_returned, router_vars,
                    llm_vars, wake_vars,
                    start_effect, bg_speaking, flag_call >>

\* lines 85-86: finally: self._paused = False
listen_loop_finally(t, rec) ==
    /\ pc[t] = "finally"
    /\ det_paused' = FALSE
    /\ Goto(t, "while")
    /\ log' = Logged(rec, << Ev("unpaused", "") >>)
    /\ UNCHANGED << det_running, det_thread, detected, consecutive_silence,
                    va_running, active_session, ctl, stop_returned,
                    router_vars, llm_vars, wake_vars, start_effect,
                    bg_speaking,
                    flag_call >>

-----------------------------------------------------------------------------
(* VoiceAssistant._on_wake_word and _conversation_loop                     *)
(* (src/assistant.py:101-159), executed by the loop thread that called     *)
(* on_wake.  A position named after a spoken line is that speak call in    *)
(* progress; "listen" is stt.listen in progress.                           *)

\* mutant of speak: the `block` argument is ignored, the speech always runs
\* on a background thread (text_to_speech.py lines 78-82)
speak_background(text, block) == text # ""

\* TextToSpeech.speak(text, block): TRUE when the call returns with the speech
\* still in progress.  Nothing is spoken for an empty text; with block the
\* call returns after _speak_sync, without it a background thread speaks
speak(text, block) == text # "" /\ ~block

\* the default of the `block` parameter
block_default == TRUE

\* lines 103-104: if self._active_session: return
on_wake_word_guard(t) ==
    /\ pc[t] = "ow_guard"
    /\ Goto(t, IF active_session THEN "finally" ELSE "ow_set")
    /\ UNCHANGED << detector_vars, detected, consecutive_silence, va_running,
                    active_session, ctl, stop_returned, log, router_vars,
                    llm_vars, wake_vars, start_effect, bg_speaking,
                    flag_call >>

\* lines 106-109: self._active_session = True; speak the acknowledgment
on_wake_word_set(t) ==
    /\ pc[t] = "ow_set"
    /\ active_session' = TRUE
    /\ Goto(t, "ack")
    /\ UNCHANGED << detector_vars, detected, consecutive_silence, va_running,
                    ctl, stop_returned, log, router_vars, llm_vars, wake_vars,
                    start_effect, bg_speaking, flag_call >>

\* lines 109, 112, 125: the acknowledgment completes; enter the loop
on_wake_word_ack(t, rec) ==
    /\ pc[t] = "ack"
    /\ consecutive_silence' = [consecutive_silence EXCEPT ![t] = 0]
    /\ Goto(t, "loopcond")
    /\ log' = Logged(rec, << Ev("speak", AckText) >>)
    /\ bg_speaking' = (bg_speaking \/ speak(AckText, TRUE))
    /\ UNCHANGED << detector_vars, detected, va_running, active_session, ctl,
                    stop_returned, router_vars, llm_vars, wake_vars,
                    start_effect,
                    flag_call >>

max_silence == 2

\* mutant of conversation_loop_cond: lines 158-159 are missing
conversation_loop_cond_nofallback(t, rec) ==
    /\ pc[t] = "loopcond"
    /\ IF va_running /\ consecutive_silence[t] < max_silence
           THEN (rec => Turns < MaxTurns) /\ Goto(t, "listen")
           ELSE Goto(t, "ow_finally")
    /\ UNCHANGED << detector_vars, detected, consecutive_silence, va_running,
                    active_session, ctl, stop_returned, log, router_vars,
                    llm_vars, wake_vars, start_effect, bg_speaking,
                    flag_call >>

\* mutant of conversation_loop_cond: line 128 does not test self._running
conversation_loop_cond_norunning(t, rec) ==
    /\ pc[t] = "loopcond"
    /\ IF consecutive_silence[t] < max_silence
           THEN (rec => Turns < MaxTurns) /\ Goto(t, "listen")
           ELSE Goto(t, "fallback")
    /\ UNCHANGED << detector_vars, detected, consecutive_silence, va_running,
                    active_session, ctl, stop_returned, log, router_vars,
                    llm_vars, wake_vars, start_effect, bg_speaking,
                    flag_call >>

\* lines 128, 158-159: the loop condition, and the check after the loop
conversation_loop_cond(t, rec) ==
    /\ pc[t] = "loopcond"
    /\ IF va_running /\ consecutive_silence[t] < max_silence
           THEN (rec => Turns < MaxTurns) /\ Goto(t, "listen")
           ELSE IF consecutive_silence[t] >= max_silence
                    THEN Goto(t, "fallback")
                    ELSE Goto(t, "ow_finally")
    /\ UNCHANGED << detector_vars, detected, consecutive_silence, va_running,
                    active_session, ctl, stop_returned, log, router_vars,
                    llm_vars, wake_vars, start_effect, bg_speaking,
                    flag_call >>

\* mutant of conversation_loop_silence: `<=` for `<` on line 135
conversation_loop_silence_le(t, rec) ==
    /\ pc[t] = "listen"
    /\ consecutive_silence' =
           [consecutive_silence EXCEPT ![t] = consecutive_silence[t] + 1]
    /\ Goto(t, IF consecutive_silence[t] + 1 <= max_silence
                   THEN "reprompt" ELSE "loopcond")
    /\ log' = Logged(rec, << Ev("heard", "None") >>)
    /\ UNCHANGED << detector_vars, detected, va_running, active_session, ctl,
                    stop_returned, router_vars, llm_vars, wake_vars,
                    start_effect,
                    bg_speaking, flag_call >>

\* lines 131-137: stt.listen returns None
conversation_loop_silence(t, rec) ==
    /\ pc[t] = "listen"
    /\ consecutive_silence' =
           [consecutive_silence EXCEPT ![t] = consecutive_silence[t] + 1]
    /\ Goto(t, IF consecutive_silence[t] + 1 < max_silence
                   THEN "reprompt" ELSE "loopcond")
    /\ log' = Logged(rec, << Ev("heard", "None") >>)
    /\ UNCHANGED << detector_vars, detected, va_running, active_session, ctl,
                    stop_returned, router_vars, llm_vars, wake_vars,
                    start_effect,
                    bg_speaking, flag_call >>

\* line 136: the re-prompt completes; continue
conversation_loop_reprompt(t, rec) ==
    /\ pc[t] = "reprompt"
    /\ Goto(t, "loopcond")
    /\ log' = Logged(rec, << Ev("speak", RepromptText) >>)
    /\ bg_speaking' = (bg_speaking \/ speak(RepromptText, block_default))
    /\ UNCHANGED << detector_vars, detected, consecutive_silence, va_running,
                    active_session, ctl, stop_returned, router_vars,
                    llm_vars, wake_vars,
                    start_effect, flag_call >>

\* mutant of conversation_loop_turn: line 139 (the reset) is missing
conversation_loop_turn_noreset(t, rec) ==
    /\ pc[t] = "listen"
    /\ \E q \in SessionQuestions, retr \in SessionRetr, gen \in GenTexts :
         LET response == answer(q, rag_available, retr, gen)
         IN  /\ Goto(t, IF response.text = EXIT THEN "signoff" ELSE "answer")
             /\ log' = Logged(rec, << Ev("heard", "text"),
                                      Ev("route", response.kind),
                                      Ev("generate", response.generator),
                                      Ev("response", response.text) >>)
    /\ UNCHANGED << detector_vars, detected, consecutive_silence, va_running,
                    active_session, ctl, stop_returned, router_vars,
                    llm_vars, wake_vars,
                    start_effect, bg_speaking, flag_call >>

\* lines 131, 139-151: stt.listen returns a transcript; pipeline.answer;
\* the check for the exit command
conversation_loop_turn(t, rec) ==
    /\ pc[t] = "listen"
    /\ \E q \in SessionQuestions, retr \in SessionRetr, gen \in GenTexts :
         LET response == answer(q, rag_available, retr, gen)
         IN  /\ Goto(t, IF response.text = EXIT THEN "signoff" ELSE "answer")
             /\ log' = Logged(rec, << Ev("heard", "text"),
                                      Ev("route", response.kind),
                                      Ev("generate", response.generator),
                                      Ev("response", response.text) >>)
    /\ consecutive_silence' = [consecutive_silence EXCEPT ![t] = 0]
    /\ UNCHANGED << detector_vars, detected, va_running, active_session, ctl,
                    stop_returned, router_vars, llm_vars, wake_vars,
                    start_effect,
                    bg_speaking, flag_call >>

\* mutant of conversation_loop_signoff: `continue` for `return` on line 151
conversation_loop_signoff_continue(t, rec) ==
    /\ pc[t] = "signoff"
    /\ Goto(t, "loopcond")
    /\ log' = Logged(rec, << Ev("speak", SignoffText) >>)
    /\ bg_speaking' = (bg_speaking \/ speak(SignoffText, block_default))
    /\ UNCHANGED << detector_vars, detected, consecutive_silence, va_running,
                    active_session, ctl, stop_returned, router_vars,
                    llm_vars, wake_vars,
                    start_effect, flag_call >>

\* lines 150-151: the sign-off completes; return
conversation_loop_signoff(t, rec) ==
    /\ pc[t] = "signoff"
    /\ Goto(t, "ow_finally")
    /\ log' = Logged(rec, << Ev("speak", SignoffText) >>)
    /\ bg_speaking' = (bg_speaking \/ speak(SignoffText, block_default))
    /\ UNCHANGED << detector_vars, detected, consecutive_silence, va_running,
                    active_session, ctl, stop_returned, router_vars,
                    llm_vars, wake_vars,
                    start_effect, flag_call >>

\* line 156: the answer has been spoken; next iteration
conversation_loop_answer(t, rec) ==
    /\ pc[t] = "answer"
    /\ Goto(t, "loopcond")
    /\ log' = Logged(rec, << Ev("speak", "<response>") >>)
    /\ bg_speaking' = (bg_speaking \/ speak("<response>", TRUE))
    /\ UNCHANGED << detector_vars, detected, consecutive_silence, va_running,
                    active_session, ctl, stop_returned, router_vars,
                    llm_vars, wake_vars,
                    start_effect, flag_call >>

\* line 159: the line after two silences completes; return
conversation_loop_fallback(t, rec) ==
    /\ pc[t] = "fallback"
    /\ Goto(t, "ow_finally")
    /\ log' = Logged(rec, << Ev("speak", FallbackText) >>)
    /\ bg_speaking' = (bg_speaking \/ speak(FallbackText, block_default))
    /\ UNCHANGED << detector_vars, detected, consecutive_silence, va_running,
                    active_session, ctl, stop_returned, router_vars,
                    llm_vars, wake_vars,
                    start_effect, flag_call >>

\* lines 117-118: finally: self._active_session = False; return to the loop
on_wake_word_finally(t, rec) ==
    /\ pc[t] = "ow_finally"
    /\ active_session' = FALSE
    /\ Goto(t, "finally")
    /\ log' = Logged(rec, << Ev("return", "") >>)
    /\ UNCHANGED << detector_vars, detected, consecutive_silence, va_running,
                    ctl, stop_returned, router_vars, llm_vars, wake_vars,
                    start_effect,
                    bg_speaking, flag_call >>

-----------------------------------------------------------------------------
(* Exceptions: in the try block of _on_wake_word (src/assistant.py:108-118) *)
(* and around on_wake in _listen_loop (src/voice/wake_word.py:81-86).       *)

\* the calls of the try block that can be in progress: the speak calls and
\* stt.listen
TurnOps == {"ack", "listen", "reprompt", "answer", "signoff", "fallback"}

\* lines 109-159, 114-115: the call in progress raises; the except clause of
\* _on_wake_word catches it and logs it
conversation_loop_raises(t, rec) ==
    /\ pc[t] \in TurnOps
    /\ Goto(t, "apology")
    /\ log' = Logged(rec, << Ev("raise", pc[t]) >>)
    /\ UNCHANGED << detector_vars, detected, consecutive_silence, va_running,
                    active_session, ctl, stop_returned, router_vars,
                    llm_vars, wake_vars,
                    start_effect, bg_speaking, flag_call >>

\* lines 131, 139, 146, 114-115: stt.listen returns a transcript and
\* pipeline.answer raises
conversation_loop_answer_raises(t, rec) ==
    /\ pc[t] = "listen"
    /\ consecutive_silence' = [consecutive_silence EXCEPT ![t] = 0]
    /\ Goto(t, "apology")
    /\ log' = Logged(rec, << Ev("heard", "text"), Ev("raise", "pipeline") >>)
    /\ UNCHANGED << detector_vars, detected, va_running, active_session, ctl,
                    stop_returned, router_vars, llm_vars, wake_vars,
                    start_effect,
                    bg_speaking, flag_call >>

\* mutant of on_wake_word_apology: the handler goes back into the loop
on_wake_word_apology_retry(t, rec) ==
    /\ pc[t] = "apology"
    /\ Goto(t, "loopcond")
    /\ log' = Logged(rec, << Ev("speak", ApologyText) >>)
    /\ bg_speaking' = (bg_speaking \/ speak(ApologyText, block_default))
    /\ UNCHANGED << detector_vars, detected, consecutive_silence, va_running,
                    active_session, ctl, stop_returned, router_vars,
                    llm_vars, wake_vars,
                    start_effect, flag_call >>

\* line 116: the apology completes; the try statement is left
on_wake_word_apology(t, rec) ==
    /\ pc[t] = "apology"
    /\ Goto(t, "ow_finally")
    /\ log' = Logged(rec, << Ev("speak", ApologyText) >>)
    /\ bg_speaking' = (bg_speaking \/ speak(ApologyText, block_default))
    /\ UNCHANGED << detector_vars, detected, consecutive_silence, va_running,
                    active_session, ctl, stop_returned, router_vars,
                    llm_vars, wake_vars,
                    start_effect, flag_call >>

\* line 116: the speak call of the handler raises in its turn
on_wake_word_apology_raises(t, rec) ==
    /\ pc[t] = "apology"
    /\ Goto(t, "ow_raise")
    /\ log' = Logged(rec, << Ev("raise", "apology") >>)
    /\ UNCHANGED << detector_vars, detected, consecutive_silence, va_running,
                    active_session, ctl, stop_returned, router_vars,
                    llm_vars, wake_vars,
                    start_effect, bg_speaking, flag_call >>

\* mutant of on_wake_word_finally_raising: the flag is reset on the normal
\* way out only (no finally block)
on_wake_word_finally_raising_noreset(t, rec) ==
    /\ pc[t] = "ow_raise"
    /\ Goto(t, "except")
    /\ log' = Logged(rec, << Ev("propagate", "") >>)
    /\ UNCHANGED << detector_vars, detected, consecutive_silence, va_running,
                    active_session, ctl, stop_returned, router_vars,
                    llm_vars, wake_vars,
                    start_effect, bg_speaking, flag_call >>

\* lines 117-118: finally: self._active_session = False, with an exception
\* pending: it leaves _on_wake_word
on_wake_word_finally_raising(t, rec) ==
    /\ pc[t] = "ow_raise"
    /\ active_session' = FALSE
    /\ Goto(t, "except")
    /\ log' = Logged(rec, << Ev("propagate", "") >>)
    /\ UNCHANGED << detector_vars, detected, consecutive_silence, va_running,
                    ctl, stop_returned, router_vars, llm_vars, wake_vars,
                    start_effect,
                    bg_speaking, flag_call >>

\* mutant of listen_loop_except: no inner try (wake_word.py lines 81-86), the
\* exception reaches the handler of line 87 with _paused left set
listen_loop_except_outer(t, rec) ==
    /\ pc[t] = "except"
    /\ Goto(t, "backoff")
    /\ log' = Logged(rec, << Ev("caught", "") >>)
    /\ UNCHANGED << detector_vars, detected, consecutive_silence, va_running,
                    active_session, ctl, stop_returned, router_vars,
                    llm_vars, wake_vars,
                    start_effect, bg_speaking, flag_call >>

\* wake_word.py lines 83-84: except Exception: the error raised by on_wake is
\* logged; the finally block follows
listen_loop_except(t, rec) ==
    /\ pc[t] = "except"
    /\ Goto(t, "finally")
    /\ log' = Logged(rec, << Ev("caught", "") >>)
    /\ UNCHANGED << detector_vars, detected, consecutive_silence, va_running,
                    active_session, ctl, stop_returned, router_vars,
                    llm_vars, wake_vars,
                    start_effect, bg_speaking, flag_call >>

-----------------------------------------------------------------------------
(* WakeWordDetector.start/stop/pause/resume (src/voice/wake_word.py:43-67) *)
(* and VoiceAssistant.start/stop (src/assistant.py:78-99), called by a     *)
(* thread other than the loop threads (the tray menu, the main thread).    *)

Alive(t) == pc[t] \notin {"none", "done"}

\* the id the next threading.Thread gets: the least one not alive
NewThread == CHOOSE t \in Threads : ~Alive(t) /\ \A u \in Threads : ~Alive(u) => t <= u

\* mutant of WakeWordDetector_start: the guard of lines 45-47 is missing
WakeWordDetector_start_unguarded ==
    /\ \E t \in Threads : ~Alive(t)
    /\ det_running' = TRUE
    /\ det_thread' = NewThread
    /\ pc' = [pc EXCEPT ![NewThread] = "while"]
    /\ start_effect' = IF det_running THEN "noop" ELSE "created"

\* WakeWordDetector.start(), lines 45-51
WakeWordDetector_start ==
    IF det_running
        THEN /\ start_effect' = "noop"
             /\ UNCHANGED << det_running, det_thread, pc >>
        ELSE /\ \E t \in Threads : ~Alive(t)
             /\ det_running' = TRUE
             /\ det_thread' = NewThread
             /\ pc' = [pc EXCEPT ![NewThread] = "while"]
             /\ start_effect' = "created"

\* a call of detector.start() from outside
start ==
    /\ ctl = "idle"
    /\ WakeWordDetector_start
    /\ stop_returned' = FALSE
    /\ UNCHANGED << det_paused, detected, consecutive_silence, va_running,
                    active_session, ctl, log, router_vars, llm_vars, wake_vars,
                    bg_speaking, flag_call >>

\* WakeWordDetector.stop(), line 56: self._running = False
stop ==
    /\ ctl = "idle"
    /\ det_running' = FALSE
    /\ ctl' = "det_join"
    /\ UNCHANGED << det_paused, det_thread, pc, detected, consecutive_silence,
                    va_running, active_session, stop_returned, log,
                    router_vars, llm_vars, wake_vars, start_effect,
                    bg_speaking,
                    flag_call >>

\* WakeWordDetector.stop(), lines 57-59: join(timeout=5) returns, because
\* there is no thread, the thread has ended, or the five seconds have passed
\* with the thread still alive; then stop() returns
stop_join ==
    /\ ctl \in {"det_join", "stop_join"}
    /\ ctl' = IF ctl = "stop_join" THEN "stop_speak" ELSE "idle"
    /\ stop_returned' = TRUE
    /\ UNCHANGED << detector_vars, pc, detected, consecutive_silence,
                    va_running, active_session, log, router_vars, llm_vars,
                    wake_vars,
                    start_effect, bg_speaking, flag_call >>

\* a recorded call: the method, whether it found the flag already at the
\* value it writes, whether a thread was inside on_wake
Call(op, same, in_wake) == [op |-> op, same |-> same, in_wake |-> in_wake]
NoCall == Call("none", FALSE, FALSE)

\* mutant of WakeWordDetector_pause: the flag is toggled
WakeWordDetector_pause_toggle(rec) ==
    /\ det_paused' = ~det_paused
    /\ flag_call' = IF rec
           THEN Call("pause", det_paused,
                     \E t \in Threads : pc[t] \in OnWakePcs)
           ELSE flag_call
    /\ UNCHANGED << det_running, det_thread, pc, detected,
                    consecutive_silence, va_running, active_session, ctl,
                    stop_returned, log, router_vars, llm_vars, wake_vars,
                    start_effect,
                    bg_speaking >>

\* WakeWordDetector.pause(), line 63; the call is recorded when rec
WakeWordDetector_pause(rec) ==
    /\ det_paused' = TRUE
    /\ flag_call' = IF rec
           THEN Call("pause", det_paused,
                     \E t \in Threads : pc[t] \in OnWakePcs)
           ELSE flag_call
    /\ UNCHANGED << det_running, det_thread, pc, detected,
                    consecutive_silence, va_running, active_session, ctl,
                    stop_returned, log, router_vars, llm_vars, wake_vars,
                    start_effect,
                    bg_speaking >>

\* WakeWordDetector.resume(), line 67; the call is recorded when rec
WakeWordDetector_resume(rec) ==
    /\ det_paused' = FALSE
    /\ flag_call' = IF rec
           THEN Call("resume", ~det_paused,
                     \E t \in Threads : pc[t] \in OnWakePcs)
           ELSE flag_call
    /\ UNCHANGED << det_running, det_thread, pc, detected,
                    consecutive_silence, va_running, active_session, ctl,
                    stop_returned, log, router_vars, llm_vars, wake_vars,
                    start_effect,
                    bg_speaking >>

\* a call of detector.pause() from outside
pause == WakeWordDetector_pause(FALSE)

\* a call of detector.resume() from outside
resume == WakeWordDetector_resume(FALSE)

\* the same calls, recorded
pause_recorded == WakeWordDetector_pause(TRUE)
resume_recorded == WakeWordDetector_resume(TRUE)

\* VoiceAssistant.start(), lines 80-84: the guard, the flag, the greeting begins
VoiceAssistant_start ==
    /\ ctl = "idle"
    /\ IF va_running
           THEN UNCHANGED << va_running, ctl >>
           ELSE va_running' = TRUE /\ ctl' = "start_speak"
    /\ UNCHANGED << detector_vars, pc, detected, consecutive_silence,
                    active_session, stop_returned, log, router_vars,
                    llm_vars, wake_vars,
                    start_effect, bg_speaking, flag_call >>

\* VoiceAssistant.start(), lines 84-85: the greeting completes;
\* self.wake_detector.start()
VoiceAssistant_start_detector ==
    /\ ctl = "start_speak"
    /\ WakeWordDetector_start
    /\ ctl' = "idle"
    /\ stop_returned' = FALSE
    /\ UNCHANGED << det_paused, detected, consecutive_silence, va_running,
                    active_session, log, router_vars, llm_vars, wake_vars,
                    bg_speaking,
                    flag_call >>

\* VoiceAssistant.stop(), line 96: self._running = False
VoiceAssistant_stop ==
    /\ ctl = "idle"
    /\ va_running' = FALSE
    /\ ctl' = "stop_det"
    /\ UNCHANGED << detector_vars, pc, detected, consecutive_silence,
                    active_session, stop_returned, log, router_vars,
                    llm_vars, wake_vars,
                    start_effect, bg_speaking, flag_call >>

\* VoiceAssistant.stop(), line 97: self.wake_detector.stop() sets its flag
VoiceAssistant_stop_detector ==
    /\ ctl = "stop_det"
    /\ det_running' = FALSE
    /\ ctl' = "stop_join"
    /\ UNCHANGED << det_paused, det_thread, pc, detected, consecutive_silence,
                    va_running, active_session, stop_returned, log,
                    router_vars, llm_vars, wake_vars, start_effect,
                    bg_speaking,
                    flag_call >>

\* VoiceAssistant.stop(), line 98: the shutdown line completes
VoiceAssistant_stop_speak ==
    /\ ctl = "stop_speak"
    /\ ctl' = "idle"
    /\ UNCHANGED << detector_vars, pc, detected, consecutive_silence,
                    va_running, active_session, stop_returned, log,
                    router_vars, llm_vars, wake_vars, start_effect,
                    bg_speaking,
                    flag_call >>

-----------------------------------------------------------------------------
(* A call of HybridPipeline.answer on its own.                             *)

\* pieces of question text: the keyword phrases (some in upper or mixed case),
\* parts of a phrase, a blank and other text
Fragments ==
    { <<"W", "h", "a", "t", " ", "T", "i", "m", "e">>,
      <<"c", "u", "r", "r", "e", "n", "t", " ", "t", "i", "m", "e">>,
      <<"t", "e", "l", "l", " ", "m", "e", " ", "t", "h", "e", " ", "t", "i", "m", "e">>,
      <<"w", "h", "a", "t", " ", "d", "a", "t", "e">>,
      <<"t", "o", "d", "a", "y", "'", "s", " ", "d", "a", "t", "e">>,
      <<"W", "H", "A", "T", " ", "D", "A", "Y">>,
      <<"s", "t", "o", "p", " ", "l", "i", "s", "t", "e", "n", "i", "n", "g">>,
      <<"g", "o", " ", "t", "o", " ", "s", "l", "e", "e", "p">>,
      <<"g", "o", "o", "d", "b", "y", "e">>,
      <<"B", "Y", "E">>,
      <<"b", "y">>,
      <<"e">>,
      <<" ">>,
      <<"i", "s", " ", "t", "h", "e", " ", "l", "i", "b", "r", "a", "r", "y", " ", "o", "p", "e", "n">> }

RECURSIVE Concats(_)
Concats(n) ==
    IF n = 0 THEN {<< >>}
    ELSE Concats(n - 1) \cup {a \o b : a \in Concats(n - 1), b \in Fragments}

\* the question texts: up to MaxParts fragments, concatenated
Questions == Concats(MaxParts)

\* self.retriever is None: retrieve cannot be called
NoRetriever == [raises |-> TRUE, contexts |-> << >>]

NoQuery == [question |-> << >>, retr |-> NoRetriever, gen |-> "None"]
NoRoute == Outcome("None", "None", 0, "none")

\* pipeline.answer(query.question) is called and returns
answer_call ==
    /\ route = NoRoute
    /\ route' = answer(query.question, rag_available, query.retr, query.gen)
    /\ UNCHANGED << detector_vars, pc, detected, consecutive_silence,
                    va_running, active_session, ctl, stop_returned, log,
                    rag_available, query, start_effect, bg_speaking,
                    flag_call, llm_vars, wake_vars >>

\* what the log says of the retrieve call of an outcome
RetrieveEvent(retr, outcome) ==
    Ev("retrieve", IF outcome.retrieves = 0 THEN "not called"
                   ELSE IF retr.raises THEN "raised" ELSE "returned")

\* mutant of pipeline_answer: a retrieve call that raises switches the
\* retriever off (self._rag_available = False in the handler of line 73)
pipeline_answer_trips ==
    /\ Len(log) < 2 * MaxCalls
    /\ \E q \in SessionQuestions \cup {<< >>},
          retr \in (IF rag_available THEN SessionRetr ELSE {NoRetriever}),
          gen \in GenTexts :
         LET outcome == answer(q, rag_available, retr, gen)
         IN  /\ query' = [question |-> q, retr |-> retr, gen |-> gen]
             /\ route' = outcome
             /\ log' = log \o << RetrieveEvent(retr, outcome),
                                 Ev("route", outcome.kind) >>
             /\ rag_available' =
                    (rag_available /\ ~(outcome.retrieves = 1 /\ retr.raises))
    /\ UNCHANGED << detector_vars, pc, detected, consecutive_silence,
                    va_running, active_session, ctl, stop_returned,
                    start_effect, bg_speaking, flag_call, llm_vars,
                    wake_vars >>

\* one more call of pipeline.answer on the same HybridPipeline object
\* (lines 39-77): it assigns no attribute of self
pipeline_answer ==
    /\ Len(log) < 2 * MaxCalls
    /\ \E q \in SessionQuestions \cup {<< >>},
          retr \in (IF rag_available THEN SessionRetr ELSE {NoRetriever}),
          gen \in GenTexts :
         LET outcome == answer(q, rag_available, retr, gen)
         IN  /\ query' = [question |-> q, retr |-> retr, gen |-> gen]
             /\ route' = outcome
             /\ log' = log \o << RetrieveEvent(retr, outcome),
                                 Ev("route", outcome.kind) >>
    /\ UNCHANGED << detector_vars, pc, detected, consecutive_silence,
                    va_running, active_session, ctl, stop_returned,
                    rag_available, start_effect, bg_speaking, flag_call,
                    llm_vars, wake_vars >>

-----------------------------------------------------------------------------
(* The generator: call_ollama (src/llm/ollama_client.py:11-34) and its two *)
(* callers.  An HTTP request does one of: raise from requests.post, come   *)
(* back with a status code and a body.                                     *)

\* the exception classes that can arise in the try block, each with the
\* classes it is an instance of
Ancestors(cls) ==
    CASE cls = "ConnectionError" ->
             {"ConnectionError", "RequestException", "Exception"}
      [] cls = "SSLError" ->
             {"SSLError", "ConnectionError", "RequestException", "Exception"}
      [] cls = "ConnectTimeout" ->
             {"ConnectTimeout", "ConnectionError", "Timeout",
              "RequestException", "Exception"}
      [] cls = "ReadTimeout" ->
             {"ReadTimeout", "Timeout", "RequestException", "Exception"}
      [] cls = "TooManyRedirects" ->
             {"TooManyRedirects", "RequestException", "Exception"}
      [] cls = "ChunkedEncodingError" ->
             {"ChunkedEncodingError", "RequestException", "Exception"}
      [] cls = "HTTPError" ->
             {"HTTPError", "RequestException", "Exception"}
      [] cls = "JSONDecodeError" ->
             {"JSONDecodeError", "RequestException", "ValueError", "Exception"}
      [] cls = "KeyError" -> {"KeyError", "LookupError", "Exception"}
      [] cls = "TypeError" -> {"TypeError", "Exception"}
      [] cls = "AttributeError" -> {"AttributeError", "Exception"}

\* what requests.post(..., timeout=120) can raise
PostErrors ==
    {"ConnectionError", "SSLError", "ConnectTimeout", "ReadTimeout",
     "TooManyRedirects", "ChunkedEncodingError"}

StatusCodes == {200, 204, 404, 500, 503}

\* the texts a well-formed body can carry in its "response" field
ResponseTexts ==
    { << >>,
      << " ", "\n" >>,
      << "O", "p", "e", "n", " ", "9", "-", "5" >>,
      << " ", "O", "p", "e", "n", " ", "9", "-", "5", ".", "\n" >>,
      << "_", "_", "E", "X", "I", "T", "_", "_" >> }

\* a response body: not JSON; JSON but not an object; an object without the
\* key "response"; an object whose "response" is null or a number; an object
\* whose "response" is a string
Body(shape, text) == [shape |-> shape, text |-> text]
Bodies ==
    {Body(sh, << >>) : sh \in {"not_json", "json_list", "no_key", "null", "number"}}
        \cup {Body("string", t) : t \in ResponseTexts}

Http(caller, post, status, body) ==
    [caller |-> caller, post |-> post, status |-> status, body |-> body]

Callers == {"call_ollama_with_context", "call_ollama_general"}

HttpOutcomes ==
    {Http(c, e, 200, Body("not_json", << >>)) : c \in Callers, e \in PostErrors}
        \cup {Http(c, "ok", st, b) : c \in Callers, st \in StatusCodes, b \in Bodies}

NoHttp == Http("none", "ok", 200, Body("not_json", << >>))

ConnectText == "Sorry, I couldn't connect to Ollama. Make sure it's running (ollama serve)."
TimeoutText == "Sorry, the request timed out. Please try again."
ErrorText == "Sorry, an error occurred: <e>"

\* the outcome of a call: it raises cls, or returns a string: the text of the
\* model (kind "text") or a fixed message (kind "apology")
Raises(cls) == [raises |-> TRUE, kind |-> cls, text |-> << >>, message |-> ""]
ReturnsText(t) == [raises |-> FALSE, kind |-> "text", text |-> t, message |-> ""]
ReturnsApology(m) == [raises |-> FALSE, kind |-> "apology", text |-> << >>, message |-> m]
NoReply == [raises |-> FALSE, kind |-> "none", text |-> << >>, message |-> ""]

\* lines 25-27: the try block; what it returns or raises
try_block(h) ==
    IF h.post # "ok" THEN Raises(h.post)
    ELSE IF h.status >= 400 /\ h.status < 600 THEN Raises("HTTPError")
    ELSE IF h.body.shape = "not_json" THEN Raises("JSONDecodeError")
    ELSE IF h.body.shape = "json_list" THEN Raises("TypeError")
    ELSE IF h.body.shape = "no_key" THEN Raises("KeyError")
    ELSE IF h.body.shape \in {"null", "number"} THEN Raises("AttributeError")
    ELSE ReturnsText(Strip(h.body.text))

\* mutant of call_ollama: the clause `except Exception` (lines 32-33) is missing
call_ollama_two_handlers(h) ==
    LET r == try_block(h)
    IN  IF ~r.raises THEN r
        ELSE IF "ConnectionError" \in Ancestors(r.kind)
            THEN ReturnsApology(ConnectText)
        ELSE IF "Timeout" \in Ancestors(r.kind)
            THEN ReturnsApology(TimeoutText)
        ELSE r

\* call_ollama, lines 24-33: the try block and its three except clauses, in
\* their order
call_ollama(h) ==
    LET r == try_block(h)
    IN  IF ~r.raises THEN r
        ELSE IF "ConnectionError" \in Ancestors(r.kind)
            THEN ReturnsApology(ConnectText)
        ELSE IF "Timeout" \in Ancestors(r.kind)
            THEN ReturnsApology(TimeoutText)
        ELSE IF "Exception" \in Ancestors(r.kind)
            THEN ReturnsApology(ErrorText)
        ELSE r

\* lines 37-56 and 59-68: both build a prompt and return call_ollama(prompt)
call_ollama_with_context(h) == call_ollama(h)
call_ollama_general(h) == call_ollama(h)

\* the generator is called and the call ends
ollama_call ==
    /\ http # NoHttp
    /\ reply = NoReply
    /\ reply' = IF http.caller = "call_ollama_with_context"
                    THEN call_ollama_with_context(http)
                    ELSE call_ollama_general(http)
    /\ UNCHANGED << detector_vars, pc, detected, consecutive_silence,
                    va_running, active_session, ctl, stop_returned, log,
                    router_vars, start_effect, bg_speaking, flag_call, http,
                    wake_vars >>

-----------------------------------------------------------------------------
(* One capture cycle: WakeWordDetector.__init__ (src/voice/wake_word.py:36) *)
(* and SpeechToText.listen_for_wake_word (src/voice/speech_to_text.py:     *)
(* 116-150).                                                               *)

\* trigger phrases as written in a configuration: those of config.py line 62,
\* one in mixed case between blanks, one in upper case, one that is blank
ConfiguredPhrases ==
    { <<"h", "e", "y", " ", "a", "s", "s", "i", "s", "t", "a", "n", "t">>,
      <<"h", "e", "y", " ", "c", "o", "m", "p", "u", "t", "e", "r">>,
      <<"o", "k", " ", "a", "s", "s", "i", "s", "t", "a", "n", "t">>,
      <<" ", "H", "e", "y", " ", "C", "o", "m", "p", "u", "t", "e", "r", " ">>,
      <<"O", "K">>,
      <<" ">> }

\* the lists of at most n configured phrases
RECURSIVE PhraseLists(_)
PhraseLists(n) ==
    IF n = 0 THEN {<< >>}
    ELSE PhraseLists(n - 1) \cup
         {Append(l, w) : l \in PhraseLists(n - 1), w \in ConfiguredPhrases}

\* what recognize_google returns for the captured audio
Transcripts ==
    { <<"h", "e", "y", " ", "c", "o", "m", "p", "u", "t", "e", "r">>,
      <<"H", "e", "y", " ", "C", "o", "m", "p", "u", "t", "e", "r", " ", "h", "e", "l", "l", "o">>,
      <<" ", "O", "K", " ", "A", "s", "s", "i", "s", "t", "a", "n", "t", " ">>,
      <<"h", "e", "y">>,
      <<"c", "o", "m", "p", "u", "t", "e", "r", " ", "h", "e", "y">>,
      <<"t", "h", "e", "y", " ", "c", "o", "m", "p", "u", "t", "e", "r", "s">>,
      <<"h", "e", "y", " ", " ", "c", "o", "m", "p", "u", "t", "e", "r">>,
      <<"o", "k", "a", "y">>,
      << >> }

\* what lines 129-133 do: a transcript, or an exception of recognizer.listen,
\* of recognize_google or of the microphone
Recognition(kind, text) == [kind |-> kind, text |-> text]
Recognitions ==
    {Recognition("text", x) : x \in Transcripts} \cup
    {Recognition(e, << >>) :
        e \in {"WaitTimeoutError", "UnknownValueError", "RequestError",
               "OSError"}}

Heard(wake_words, outcome) == [wake_words |-> wake_words, outcome |-> outcome]
NoHeard == Heard(<< >>, Recognition("none", << >>))

\* wake_word.py line 36: self.wake_words = [w.lower().strip() for w in wake_words]
WakeWordDetector_init(wake_words) ==
    [k \in 1..Len(wake_words) |-> Strip(Lower(wake_words[k]))]

\* speech_to_text.py lines 136-141: for word in wake_words:
\* if word.lower() in text: return True; after the loop return False
RECURSIVE for_word(_, _, _)
for_word(wake_words, k, text) ==
    IF k > Len(wake_words) THEN FALSE
    ELSE IF Contains(Lower(wake_words[k]), text) THEN TRUE
    ELSE for_word(wake_words, k + 1, text)

\* mutant of listen_for_wake_word: the loop of lines 136-141 returns after
\* its first phrase
listen_for_wake_word_first_only(wake_words, outcome) ==
    /\ outcome.kind = "text"
    /\ Len(wake_words) > 0
    /\ Contains(Lower(wake_words[1]), Strip(Lower(outcome.text)))

\* SpeechToText.listen_for_wake_word, lines 127-150: every exception of the
\* try block is handled by returning False
listen_for_wake_word(wake_words, outcome) ==
    IF outcome.kind = "text"
        THEN for_word(wake_words, 1, Strip(Lower(outcome.text)))
        ELSE FALSE

\* wake_word.py line 77: one capture cycle of a detector constructed with
\* the configured phrases
capture_cycle ==
    /\ heard # NoHeard
    /\ reported = << >>
    /\ reported' = << listen_for_wake_word(
                          WakeWordDetector_init(heard.wake_words),
                          heard.outcome) >>
    /\ UNCHANGED << detector_vars, pc, detected, consecutive_silence,
                    va_running, active_session, ctl, stop_returned, log,
                    router_vars, llm_vars, start_effect, bg_speaking,
                    flag_call, heard >>

-----------------------------------------------------------------------------
(* Specifications.                                                         *)

\* the state after VoiceAssistant.__init__ (src/assistant.py:52-76); the
\* retriever may or may not have initialised (hybrid_pipeline.py:29-37)
Init ==
    /\ det_running = FALSE
    /\ det_paused = FALSE
    /\ det_thread = 0
    /\ pc = [t \in Threads |-> "none"]
    /\ detected = [t \in Threads |-> FALSE]
    /\ consecutive_silence = [t \in Threads |-> 0]
    /\ va_running = FALSE
    /\ active_session = FALSE
    /\ ctl = "idle"
    /\ stop_returned = FALSE
    /\ log = << >>
    /\ rag_available \in BOOLEAN
    /\ query = NoQuery
    /\ route = NoRoute
    /\ start_effect = "none"
    /\ bg_speaking = FALSE
    /\ flag_call = NoCall
    /\ http = NoHttp
    /\ reply = NoReply
    /\ heard = NoHeard
    /\ reported = << >>

\* one step of loop thread t outside the turns of a session
DetectorStep(t, rec) ==
    \/ listen_loop_while(t)
    \/ listen_loop_ifpaused(t)
    \/ listen_loop_capture(t)
    \/ listen_loop_capture_raises(t)
    \/ listen_loop_backoff(t)
    \/ listen_loop_check(t)
    \/ listen_loop_invoke(t, rec)
    \/ listen_loop_finally(t, rec)
    \/ on_wake_word_guard(t)
    \/ on_wake_word_set(t)
    \/ on_wake_word_ack(t, rec)
    \/ conversation_loop_cond(t, rec)
    \/ on_wake_word_finally(t, rec)

\* one step of loop thread t in a turn of a session
TurnStep(t, rec) ==
    \/ conversation_loop_silence(t, rec)
    \/ conversation_loop_reprompt(t, rec)
    \/ conversation_loop_turn(t, rec)
    \/ conversation_loop_signoff(t, rec)
    \/ conversation_loop_answer(t, rec)
    \/ conversation_loop_fallback(t, rec)

\* one step of loop thread t, other than the sleep of a paused detector
RunStep(t, rec) ==
    \/ DetectorStep(t, rec)
    \/ TurnStep(t, rec)

\* one step of loop thread t
ThreadStep(t, rec) ==
    \/ RunStep(t, rec)
    \/ listen_loop_sleep(t)

\* the detector and the assistant under every interleaving of the loop
\* threads with start, stop, pause and resume
Next ==
    \/ \E t \in Threads : ThreadStep(t, FALSE)
    \/ start
    \/ stop
    \/ stop_join
    \/ pause
    \/ resume
    \/ VoiceAssistant_start
    \/ VoiceAssistant_start_detector
    \/ VoiceAssistant_stop
    \/ VoiceAssistant_stop_detector
    \/ VoiceAssistant_stop_speak

Spec == Init /\ [][Next]_vars

\* one started assistant with its one loop thread; the sessions are recorded
SessionInit ==
    /\ det_running = TRUE
    /\ det_paused = FALSE
    /\ det_thread = 1
    /\ pc = [t \in Threads |-> IF t = 1 THEN "while" ELSE "none"]
    /\ detected = [t \in Threads |-> FALSE]
    /\ consecutive_silence = [t \in Threads |-> 0]
    /\ va_running = TRUE
    /\ active_session = FALSE
    /\ ctl = "idle"
    /\ stop_returned = FALSE
    /\ log = << >>
    /\ rag_available \in BOOLEAN
    /\ query = NoQuery
    /\ route = NoRoute
    /\ start_effect = "none"
    /\ bg_speaking = FALSE
    /\ flag_call = NoCall
    /\ http = NoHttp
    /\ reply = NoReply
    /\ heard = NoHeard
    /\ reported = << >>

SessionNext ==
    \/ ThreadStep(1, TRUE)
    \/ pause
    \/ resume
    \/ VoiceAssistant_stop
    \/ VoiceAssistant_stop_detector
    \/ stop_join
    \/ VoiceAssistant_stop_speak

SessionSpec == SessionInit /\ [][SessionNext]_vars


\* the exceptional steps of loop thread t
FaultStep(t, rec) ==
    \/ conversation_loop_raises(t, rec)
    \/ conversation_loop_answer_raises(t, rec)
    \/ on_wake_word_apology(t, rec)
    \/ on_wake_word_apology_raises(t, rec)
    \/ on_wake_word_finally_raising(t, rec)
    \/ listen_loop_except(t, rec)

\* the recorded sessions of one started assistant, with calls that raise
FaultNext ==
    \/ ThreadStep(1, TRUE)
    \/ FaultStep(1, TRUE)
    \/ pause
    \/ resume
    \/ VoiceAssistant_stop
    \/ VoiceAssistant_stop_detector
    \/ stop_join
    \/ VoiceAssistant_stop_speak

FaultSpec == SessionInit /\ [][FaultNext]_vars

\* the detector on its own: start, stop, pause and resume in any order, with
\* the assistant not started (a session ends at its first loop test)
DetectorNext ==
    \/ \E t \in Threads : DetectorStep(t, FALSE) \/ listen_loop_sleep(t)
    \/ start
    \/ stop
    \/ stop_join
    \/ pause
    \/ resume

DetectorSpec == Init /\ [][DetectorNext]_vars

\* the detector on its own, every loop thread scheduled again and again:
\* sleep, the capture call (lines 73, 77, 89) and on_wake (line 82) return
StopSpec ==
    /\ Init
    /\ [][DetectorNext]_vars
    /\ \A t \in Threads :
           WF_vars(DetectorStep(t, FALSE) \/ listen_loop_sleep(t))

\* the detector on its own, its pause() and resume() calls recorded
FlagNext ==
    \/ \E t \in Threads : DetectorStep(t, FALSE) \/ listen_loop_sleep(t)
    \/ start
    \/ stop
    \/ stop_join
    \/ pause_recorded
    \/ resume_recorded

FlagSpec == Init /\ [][FlagNext]_vars

\* the program as src/ runs it: nothing there calls pause() or resume(), the
\* detector is paused by its own loop only; the loop thread is scheduled
\* again and again and each of its blocking calls returns or raises
FairNext ==
    \/ RunStep(1, TRUE)
    \/ FaultStep(1, TRUE)
    \/ VoiceAssistant_stop
    \/ VoiceAssistant_stop_detector
    \/ stop_join
    \/ VoiceAssistant_stop_speak

FairSpec ==
    /\ SessionInit
    /\ [][FairNext]_vars
    /\ WF_vars(RunStep(1, TRUE) \/ FaultStep(1, TRUE))

\* the router alone: a constructed pipeline and the inputs of one call
RouterInit ==
    /\ det_running = FALSE
    /\ det_paused = FALSE
    /\ det_thread = 0
    /\ pc = [t \in Threads |-> "none"]
    /\ detected = [t \in Threads |-> FALSE]
    /\ consecutive_silence = [t \in Threads |-> 0]
    /\ va_running = FALSE
    /\ active_session = FALSE
    /\ ctl = "idle"
    /\ stop_returned = FALSE
    /\ log = << >>
    /\ rag_available \in BOOLEAN
    /\ query \in [question : Questions, retr : RetrOutcomes, gen : GenTexts]
    /\ ~rag_available => query.retr = NoRetriever
    /\ route = NoRoute
    /\ start_effect = "none"
    /\ bg_speaking = FALSE
    /\ flag_call = NoCall
    /\ http = NoHttp
    /\ reply = NoReply
    /\ heard = NoHeard
    /\ reported = << >>

RouterNext == answer_call

RouterSpec == RouterInit /\ [][RouterNext]_vars

\* the generator alone: the outcome of one HTTP request and the call made
OllamaInit ==
    /\ det_running = FALSE
    /\ det_paused = FALSE
    /\ det_thread = 0
    /\ pc = [t \in Threads |-> "none"]
    /\ detected = [t \in Threads |-> FALSE]
    /\ consecutive_silence = [t \in Threads |-> 0]
    /\ va_running = FALSE
    /\ active_session = FALSE
    /\ ctl = "idle"
    /\ stop_returned = FALSE
    /\ log = << >>
    /\ rag_available = FALSE
    /\ query = NoQuery
    /\ route = NoRoute
    /\ start_effect = "none"
    /\ bg_speaking = FALSE
    /\ flag_call = NoCall
    /\ http \in HttpOutcomes
    /\ reply = NoReply
    /\ heard = NoHeard
    /\ reported = << >>

OllamaNext == ollama_call

OllamaSpec == OllamaInit /\ [][OllamaNext]_vars

\* one pipeline answering questions one after the other
PipelineInit ==
    /\ det_running = FALSE
    /\ det_paused = FALSE
    /\ det_thread = 0
    /\ pc = [t \in Threads |-> "none"]
    /\ detected = [t \in Threads |-> FALSE]
    /\ consecutive_silence = [t \in Threads |-> 0]
    /\ va_running = FALSE
    /\ active_session = FALSE
    /\ ctl = "idle"
    /\ stop_returned = FALSE
    /\ log = << >>
    /\ rag_available \in BOOLEAN
    /\ query = NoQuery
    /\ route = NoRoute
    /\ start_effect = "none"
    /\ bg_speaking = FALSE
    /\ flag_call = NoCall
    /\ http = NoHttp
    /\ reply = NoReply
    /\ heard = NoHeard
    /\ reported = << >>

PipelineNext == pipeline_answer

PipelineSpec == PipelineInit /\ [][PipelineNext]_vars

\* one capture cycle alone: the configured phrases and what is recognised
CaptureInit ==
    /\ det_running = FALSE
    /\ det_paused = FALSE
    /\ det_thread = 0
    /\ pc = [t \in Threads |-> "none"]
    /\ detected = [t \in Threads |-> FALSE]
    /\ consecutive_silence = [t \in Threads |-> 0]
    /\ va_running = FALSE
    /\ active_session = FALSE
    /\ ctl = "idle"
    /\ stop_returned = FALSE
    /\ log = << >>
    /\ rag_available = FALSE
    /\ query = NoQuery
    /\ route = NoRoute
    /\ start_effect = "none"
    /\ bg_speaking = FALSE
    /\ flag_call = NoCall
    /\ http = NoHttp
    /\ reply = NoReply
    /\ heard \in {Heard(l, o) : l \in PhraseLists(MaxPhrases), o \in Recognitions}
    /\ reported = << >>

CaptureNext == capture_cycle

CaptureSpec == CaptureInit /\ [][CaptureNext]_vars

-----------------------------------------------------------------------------
(* Properties.                                                             *)

\* thread t is inside on_wake (VoiceAssistant._on_wake_word): called, not
\* yet returned
InOnWake(t) ==
    pc[t] \in {"ow_guard", "ow_set", "ack", "loopcond", "listen", "reprompt",
               "answer", "signoff", "fallback", "apology", "ow_finally",
               "ow_raise"}

\* thread t is inside _conversation_loop
InConversationLoop(t) ==
    pc[t] \in {"loopcond", "listen", "reprompt", "answer", "signoff", "fallback"}

\* thread t is inside a capture call on the shared SpeechToText
InCapture(t) == pc[t] \in {"capture", "listen"}

\* C1: on_wake is never invoked while a previous invocation has not yet
\* returned: at most one thread is inside on_wake at any time.
C1_NoReentrantWake == Cardinality({t \in Threads : InOnWake(t)}) <= 1

\* C2: whenever a session is active (_on_wake_word has started and has not
\* returned), the detector's _paused flag is True.
C2_PausedWhileSessionActive == (\E t \in Threads : InOnWake(t)) => det_paused

\* C3: at most one session is active at any time: no two executions of
\* _conversation_loop overlap.
C3_OneSession == Cardinality({t \in Threads : InConversationLoop(t)}) <= 1

\* C4: the shared SpeechToText is never used concurrently: at most one capture
\* call (listen_for_wake_word or listen) is in progress at any time.
C4_OneCapture == Cardinality({t \in Threads : InCapture(t)}) <= 1

\* C5: after the detector's stop() has returned, is_running is False and, as
\* long as start() is not called again, no invocation of on_wake begins.
C5_NoWakeAfterStop ==
    [][ (stop_returned /\ stop_returned') =>
            /\ ~det_running'
            /\ \A t \in Threads : pc'[t] = "ow_guard" => pc[t] = "ow_guard" ]_vars

\* -------- the recorded session (SessionSpec)

HeardNone == Ev("heard", "None")
Spoke(text) == Ev("speak", text)

\* the positions of the log
Pos == 1..Len(log)

\* the listen before position i, 0 if there is none
PrevHeard(i) ==
    IF \E j \in 1..(i - 1) : log[j].ev = "heard"
        THEN CHOOSE j \in 1..(i - 1) :
                 log[j].ev = "heard" /\ \A k \in (j + 1)..(i - 1) : log[k].ev # "heard"
        ELSE 0

\* position i is a silent listen, the first in a row
FirstSilence(i) ==
    /\ log[i] = HeardNone
    /\ PrevHeard(i) = 0 \/ log[PrevHeard(i)] # HeardNone

\* position i is a silent listen that follows a silent listen
SecondSilence(i) ==
    /\ log[i] = HeardNone
    /\ PrevHeard(i) # 0 /\ log[PrevHeard(i)] = HeardNone

\* the silent listens at the end of the recorded listens
RECURSIVE TrailingSilences(_)
TrailingSilences(i) ==
    IF i = 0 THEN 0
    ELSE IF log[i].ev # "heard" THEN TrailingSilences(i - 1)
    ELSE IF log[i] = HeardNone THEN 1 + TrailingSilences(i - 1)
    ELSE 0

\* C6: a first silence in a row is followed by the re-prompt and then by
\* another listen (or, the assistant having been stopped, by the return); a
\* second silence in a row is followed by no re-prompt but by the line "I'll
\* go back to listening for the wake word.", spoken once, and the return; no
\* third consecutive silent listen is performed.
C6_SilenceProtocol ==
    /\ \A i \in Pos :
         /\ FirstSilence(i) =>
              /\ i = Len(log) => pc[1] = "reprompt"
              /\ i < Len(log) => log[i + 1] = Spoke(RepromptText)
              /\ i + 1 < Len(log) =>
                     \/ log[i + 2].ev = "heard"
                     \/ log[i + 2].ev = "return" /\ ~va_running
         /\ SecondSilence(i) =>
              /\ i = Len(log) => pc[1] \in {"loopcond", "fallback"}
              /\ i < Len(log) => log[i + 1] = Spoke(FallbackText)
              /\ i + 1 < Len(log) => log[i + 2].ev = "return"
              /\ \A j \in Pos : j > i => log[j].ev # "heard"
              /\ pc[1] # "listen"
    /\ Cardinality({i \in Pos : log[i] = Spoke(FallbackText)}) <= 1

\* C6 witness: two silences in a row, the first re-prompted, then the fallback
\* line and the return
C6_Witness ==
    \E i \in Pos :
        /\ FirstSilence(i)
        /\ i + 4 <= Len(log)
        /\ log[i + 1] = Spoke(RepromptText)
        /\ SecondSilence(i + 2)
        /\ log[i + 3] = Spoke(FallbackText)
        /\ log[i + 4].ev = "return"

\* C7: consecutive_silence is always in 0..2 and, inside the loop, is the
\* number of silent listens since the last transcript (a transcript sets it
\* to 0); the session says the fallback line only after two silences with no
\* transcript between them.
C7_SilenceCounter ==
    /\ \A t \in Threads : consecutive_silence[t] \in 0..2
    /\ InConversationLoop(1) => consecutive_silence[1] = TrailingSilences(Len(log))
    /\ \A i \in Pos : log[i] = Spoke(FallbackText) =>
           /\ i > 3
           /\ log[i - 1] = HeardNone
           /\ log[i - 2] = Spoke(RepromptText)
           /\ log[i - 3] = HeardNone

\* C7 witness: silence, transcript, silence, and the session listens again
C7_Witness ==
    \E i \in Pos, j \in Pos, k \in Pos :
        /\ i < j /\ j < k
        /\ log[i] = HeardNone
        /\ log[j] = Ev("heard", "text") /\ PrevHeard(j) = i
        /\ log[k] = HeardNone /\ PrevHeard(k) = j
        /\ k + 1 = Len(log) /\ log[k + 1] = Spoke(RepromptText)
        /\ pc[1] = "listen"
        /\ consecutive_silence[1] = 1

\* C8: when the router yields Exit, the session speaks the sign-off line and
\* returns: no further listen, no answer spoken, no fallback line.
C8_ExitEndsSession ==
    \A i \in Pos : log[i] = Ev("route", "Exit") =>
        /\ Len(log) <= i + 5
        /\ Len(log) = i + 2 => pc[1] = "signoff"
        /\ Len(log) >= i + 3 => log[i + 3] = Spoke(SignoffText)
        /\ Len(log) = i + 3 => pc[1] = "ow_finally"
        /\ Len(log) >= i + 4 => log[i + 4].ev = "return"
        /\ Len(log) >= i + 5 => log[i + 5].ev = "unpaused"

\* C8 witness: an Exit decision, the sign-off spoken, the session returned
C8_Witness ==
    \E i \in Pos :
        /\ log[i] = Ev("route", "Exit")
        /\ Len(log) >= i + 4
        /\ log[i + 3] = Spoke(SignoffText)
        /\ log[i + 4].ev = "return"

\* -------- the router (RouterSpec)

Answered == route # NoRoute

HasTime(q) == AnyIn(TimePhrases, Lower(q))
HasDate(q) == AnyIn(DatePhrases, Lower(q))
HasFarewell(q) == AnyIn(FarewellPhrases, Lower(q))

\* C9, as claimed: every question that contains a farewell phrase
\* (case-insensitive) yields Exit, whatever else it contains.
C9_FarewellAlwaysExits ==
    (Answered /\ HasFarewell(query.question)) =>
        route.kind = "Exit" /\ route.text = EXIT

\* C9, amended: every question that contains a farewell phrase and no time
\* phrase and no date phrase (case-insensitive) yields Exit, whatever
\* contexts the retriever would return.
C9_FarewellExits ==
    (/\ Answered
     /\ HasFarewell(query.question)
     /\ ~HasTime(query.question)
     /\ ~HasDate(query.question)) =>
        route.kind = "Exit" /\ route.text = EXIT

\* C9 witness: an upper-case farewell with more text, a working retriever
\* with a relevant passage, and the decision is Exit
C9_Witness ==
    /\ Answered
    /\ Contains(<<"B", "Y", "E">>, query.question)
    /\ Len(query.question) > 3
    /\ rag_available /\ ~query.retr.raises /\ is_relevant(query.retr.contexts)
    /\ route.kind = "Exit"

\* C10: a question that matches a time, date or farewell keyword is answered
\* with no retrieve call and no generator call, and the decision is the same
\* for every state of the retriever (available, not initialised, raising).
C10_CommandsBypassRetrieval ==
    (/\ Answered
     /\ \/ HasTime(query.question)
        \/ HasDate(query.question)
        \/ HasFarewell(query.question)) =>
        /\ route.kind \in {"Time", "Date", "Exit"}
        /\ route.retrieves = 0
        /\ route.generator = "none"
        /\ route.text \in {TimeText, DateText, EXIT}
        /\ \A rag \in BOOLEAN, retr \in RetrOutcomes :
               answer(query.question, rag, retr, query.gen).kind = route.kind

\* C10 witness: a time question answered with a working retriever that holds
\* a relevant passage
C10_Witness ==
    /\ Answered
    /\ HasTime(query.question)
    /\ rag_available /\ ~query.retr.raises /\ is_relevant(query.retr.contexts)
    /\ route.kind = "Time"
    /\ route.retrieves = 0

\* the question reaches the retrieval step: not empty, no command keyword
NoCommandIn(q) ==
    /\ Strip(q) # << >>
    /\ ~HasTime(q) /\ ~HasDate(q) /\ ~HasFarewell(q)

C12_RetrievalFailureIsGeneral ==
    (/\ Answered
     /\ NoCommandIn(query.question)
     /\ ~rag_available \/ query.retr.raises) =>
        /\ route.kind = "General"
        /\ route.generator = "general"
        /\ route.text = query.gen
        /\ route.retrieves = (IF rag_available THEN 1 ELSE 0)

\* C12 witness: retrieve raised and the decision is General
C12_Witness ==
    /\ Answered
    /\ NoCommandIn(query.question)
    /\ rag_available /\ query.retr.raises
    /\ route.kind = "General"
    /\ route.retrieves = 1

Kinds == {"Clarification", "Time", "Date", "Exit", "Grounded", "General"}

\* C13: every question produces exactly one of the six decision kinds, and the
\* kind is a function of the question text and the retriever outcome alone:
\* whatever else differs between two runs (the text the generator returns),
\* the kind is the same.
C13_DeterministicTotal ==
    Answered =>
        /\ route.kind \in Kinds
        /\ \A gen \in GenTexts :
               answer(query.question, rag_available, query.retr, gen).kind = route.kind

\* C13 witness: the generator returned the exit marker itself and the decision
\* is General all the same
C13_Witness ==
    /\ Answered
    /\ query.gen = EXIT
    /\ route.kind = "General"
    /\ route.text = EXIT

\* position i of the log is an exception raised by a call of a turn
TurnRaise(i) == log[i].ev = "raise" /\ log[i].arg # "apology"

\* C14: when a call of a turn raises (stt.listen, pipeline.answer, a speak
\* call), the handler of _on_wake_word speaks the apology next; the session
\* performs no further listen and no further turn; when the apology has been
\* spoken _on_wake_word returns normally (nothing propagates to the loop); and
\* once it has returned the session is not active.
C14_FaultEndsSession ==
    \A i \in 1..Len(log) :
        TurnRaise(i) =>
            /\ \A j \in (i + 1)..Len(log) :
                   log[j].ev # "heard" /\ ~TurnRaise(j)
            /\ ~InConversationLoop(1) /\ pc[1] # "ack"
            /\ Len(log) = i => pc[1] = "apology" /\ active_session
            /\ Len(log) > i =>
                   log[i + 1] \in {Ev("speak", ApologyText), Ev("raise", "apology")}
            /\ (Len(log) > i /\ log[i + 1] = Ev("speak", ApologyText)) =>
                   /\ \A j \in (i + 1)..Len(log) :
                          log[j].ev \notin {"propagate", "caught"}
                   /\ Len(log) > i + 1 => log[i + 2] = Ev("return", "")
            /\ Len(log) > i + 1 => ~active_session /\ ~InOnWake(1)

\* C14 witness: a question was answered, the next listen raised, the apology
\* was spoken and _on_wake_word has returned
C14_Witness ==
    \E i \in 1..Len(log) :
        /\ log[i] = Ev("raise", "listen")
        /\ \E j \in 1..(i - 1) : log[j] = Ev("speak", "<response>")
        /\ Len(log) >= i + 2
        /\ log[i + 1] = Ev("speak", ApologyText)
        /\ log[i + 2] = Ev("return", "")
        /\ ~active_session

\* the steps by which the loop of thread 1 goes from the return of on_wake to
\* its next capture: an exception of on_wake is followed by the finally
\* block, the finally block clears _paused and goes to the loop test, the loop
\* test ends the loop only if _running is False
LoopGoesOn ==
    /\ pc[1] = "except" /\ pc'[1] # "except" => pc'[1] = "finally"
    /\ pc[1] = "finally" /\ pc'[1] # "finally" =>
           ~det_paused' /\ pc'[1] = "while"
    /\ pc[1] = "while" /\ pc'[1] # "while" =>
           pc'[1] = (IF det_running THEN "ifpaused" ELSE "done")
    /\ pc[1] = "ifpaused" /\ pc'[1] # "ifpaused" =>
           pc'[1] = (IF det_paused THEN "sleep" ELSE "capture")
    /\ pc[1] = "sleep" /\ pc'[1] # "sleep" => pc'[1] = "while"
    /\ pc'[1] = "done" => pc[1] \in {"while", "done"}

\* C15: an exception raised by on_wake is caught inside the loop: what
\* follows it is the reset of _paused to False and the loop test, never the
\* end of the thread; the thread ends only at a loop test that finds _running
\* False.
C15_LoopSurvivesCallbackFault ==
    /\ [](\A i \in 1..Len(log) :
              log[i].ev = "caught" =>
                  /\ Len(log) = i => pc[1] = "finally"
                  /\ Len(log) > i =>
                         /\ log[i + 1] = Ev("unpaused", "")
                         /\ Len(log) = i + 1
                         /\ pc[1] # "done" \/ ~det_running)
    /\ [][LoopGoesOn]_vars

\* C15 witness: on_wake raised, and the loop is in a capture call again with
\* the detector running and not paused
C15_Witness ==
    /\ \E i \in 1..Len(log) : log[i].ev = "caught"
    /\ pc[1] = "capture"
    /\ det_running /\ ~det_paused

\* a step of thread 1 in a cycle whose capture raised or detected nothing
FailedCaptureStep ==
    /\ pc[1] = "capture" /\ pc'[1] # "capture" =>
           /\ pc'[1] \in {"check", "backoff"}
           /\ UNCHANGED << det_running, det_paused >>
    /\ pc[1] = "backoff" /\ pc'[1] # "backoff" =>
           /\ pc'[1] = "while"
           /\ UNCHANGED << det_running, det_paused >>
    /\ pc[1] = "check" /\ ~detected[1] /\ pc'[1] # "check" =>
           /\ pc'[1] = "while"
           /\ UNCHANGED << det_running, det_paused >>
    /\ pc[1] # "invoke" /\ pc'[1] = "invoke" =>
           pc[1] = "check" /\ detected[1]
    /\ pc[1] = "while" /\ det_running /\ pc'[1] # "while" =>
           pc'[1] = "ifpaused"
    /\ pc[1] # "done" /\ pc'[1] = "done" =>
           pc[1] = "while" /\ ~det_running

\* C16: when listen_for_wake_word raises, or returns False, the cycle invokes
\* no callback and changes neither _running nor _paused; the loop goes back to
\* its test and into another cycle; the thread ends only at a test that finds
\* _running False.
C16_CaptureFailureContinues == [][FailedCaptureStep]_vars

\* C16 witness: the capture call has raised (the loop is in its backoff sleep)
\* with the detector running
C16_Witness ==
    /\ pc[1] = "backoff"
    /\ det_running /\ ~det_paused

\* on_wake has returned and has not been invoked since
Returned == log # << >> /\ log[Len(log)].ev = "unpaused"

\* C17: after on_wake has returned, by whichever path (exit command, two
\* silences, a fault, the assistant's flag cleared), _paused is False; and
\* from the return of on_wake the loop reaches its next capture call, unless
\* the detector has been stopped.
C17_ReturnsToWaiting ==
    /\ [](Returned => ~det_paused)
    /\ [](pc[1] \in {"while", "ifpaused", "capture", "check", "backoff", "done"}
             => ~det_paused)
    /\ (pc[1] = "finally") ~> (pc[1] = "capture" \/ ~det_running)

\* C17 witness: a session ended by the exit command, on_wake returned, and the
\* loop is in its next capture call
C17_Witness ==
    /\ Returned
    /\ \E i \in 1..Len(log) : log[i] = Ev("speak", SignoffText)
    /\ pc[1] = "capture"
    /\ det_running /\ ~det_paused

\* C18: whenever a listen of the session is in progress, no speech of the
\* session is: each speak call of the session returned only when its speech
\* was complete, the last thing the session did before the listen was to
\* complete a speak call (the acknowledgment, a re-prompt or an answer), and
\* the acknowledgment was the first of them.
C18_SpeakCompletesBeforeListen ==
    pc[1] = "listen" =>
        /\ ~bg_speaking
        /\ Len(log) >= 2
        /\ log[2] = Ev("speak", AckText)
        /\ log[Len(log)].ev = "speak"
        /\ log[Len(log)].arg \in {AckText, RepromptText, "<response>"}

\* C18 witness: the listen that follows a spoken answer is in progress
C18_Witness ==
    /\ pc[1] = "listen"
    /\ Len(log) > 2
    /\ log[Len(log)] = Ev("speak", "<response>")
    /\ ~bg_speaking

\* C19: every start() on a detector that is not running leaves it Listening
\* (_running True and _paused False), whatever calls came before; stop()
\* leaves it Idle (_running False).
C19_StartListens ==
    [][/\ (start /\ ~det_running) => (det_running' /\ ~det_paused')
       /\ stop => ~det_running']_vars

\* C20: start() on a detector whose _running is True returns normally and
\* changes nothing: _running, _paused and _thread keep their values and no
\* thread comes into being.
C20_StartWhileRunningNoop ==
    [][(start /\ det_running) =>
           /\ start_effect' = "noop"
           /\ UNCHANGED << det_running, det_paused, det_thread, pc >>
           /\ \A t \in Threads : Alive(t)' = Alive(t)]_vars

\* C20 witness: the last start() found _running True, with the detector
\* paused and its thread alive
C20_Witness ==
    /\ start_effect = "noop"
    /\ det_running /\ det_paused
    /\ det_thread # 0 /\ Alive(det_thread)

\* C21: pause() sets _paused and nothing else, and on a detector that is
\* already paused it changes nothing at all (two pause() calls leave what one
\* leaves); resume() on a detector that is not paused changes nothing.
C21_PauseResumeIdempotent ==
    [][/\ pause_recorded =>
              det_paused' /\ UNCHANGED << det_running, det_thread, pc >>
       /\ (pause_recorded /\ det_paused) =>
              UNCHANGED << det_running, det_paused, det_thread, pc >>
       /\ (resume_recorded /\ ~det_paused) =>
              UNCHANGED << det_running, det_paused, det_thread, pc >>]_vars

\* C21 witness: on a started detector the last call was a pause() that found
\* the detector paused already, and it is paused
C21_Witness ==
    /\ flag_call.op = "pause" /\ flag_call.same
    /\ det_running /\ det_paused
    /\ det_thread # 0 /\ Alive(det_thread)

\* a step of the session of thread 1 with the assistant's _running False:
\* the call in flight returns as it would have (its completion is logged and
\* the turn goes on), the loop test leads out of the loop, no listen begins
SessionStepAfterStop ==
    ~va_running =>
        /\ (pc[1] \in TurnOps /\ pc'[1] # pc[1]) =>
               /\ Len(log') > Len(log)
               /\ log'[Len(log) + 1].ev =
                      (IF pc[1] = "listen" THEN "heard" ELSE "speak")
        /\ (pc[1] = "loopcond" /\ pc'[1] # "loopcond") =>
               pc'[1] \in {"fallback", "ow_finally"}
        /\ pc'[1] = "listen" => pc[1] = "listen"

\* C22: VoiceAssistant.stop() changes nothing of a session but the flag its
\* loop tests: the listen or speak in flight completes, the turn in progress
\* is finished, the next loop test leaves the loop without a new listen, and
\* _on_wake_word returns.
C22_StopLetsTurnFinish ==
    [][/\ VoiceAssistant_stop => UNCHANGED << pc, log, active_session >>
       /\ SessionStepAfterStop]_vars

\* C22 witness: stop() was called during a session; the answer then in
\* progress was spoken to its end and the session returned at the loop test
C22_Witness ==
    /\ ~va_running
    /\ \E i \in 2..Len(log) :
           /\ log[i] = Ev("return", "")
           /\ log[i - 1] = Ev("speak", "<response>")

\* the log of the run of C23, in order
ScenarioLog ==
    << Ev("paused", ""),
       Ev("speak", AckText),
       Ev("heard", "text"),
       Ev("route", "Grounded"),
       Ev("generate", "with_context"),
       Ev("response", "<generated answer>"),
       Ev("speak", "<response>"),
       Ev("heard", "None"),
       Ev("speak", RepromptText),
       Ev("heard", "None"),
       Ev("speak", FallbackText),
       Ev("return", ""),
       Ev("unpaused", "") >>

\* what the session was given so far: the results of its listens and the
\* decisions and texts that came back from pipeline.answer
RECURSIVE Given(_)
Given(l) ==
    IF l = << >> THEN << >>
    ELSE IF Head(l).ev \in {"heard", "route", "response"}
             THEN << Head(l) >> \o Given(Tail(l))
             ELSE Given(Tail(l))

IsPrefix(a, b) == Len(a) <= Len(b) /\ SubSeq(b, 1, Len(a)) = a

\* C23: in the run in which the session hears one question that is routed to
\* Grounded and then silence twice, what happens is, in this order: detector
\* paused, acknowledgment, question heard, generator called with the context,
\* answer spoken, re-prompt after the first silence, the line "I'll go back
\* to listening for the wake word." after the second, return, detector
\* unpaused; nothing else happens in between.
C23_GroundedThenSilenceScenario ==
    (/\ va_running
     /\ IsPrefix(Given(log), Given(ScenarioLog))) =>
        /\ IsPrefix(log, ScenarioLog)
        /\ Len(log) = 13 => pc[1] \in {"while", "ifpaused", "sleep", "capture",
                                        "backoff", "check", "invoke"}

\* C23 witness: the run has happened, to its end
C23_Witness ==
    /\ log = ScenarioLog
    /\ va_running /\ det_running
    /\ pc[1] = "capture"

\* C25: the first of the tests time, date, farewell that matches decides: a
\* question with a time phrase yields Time (with a date or farewell phrase in
\* it or not), one with a date phrase and no time phrase yields Date (with a
\* farewell phrase in it or not), and Exit is yielded only without a time
\* phrase and without a date phrase.
C25_CommandOrder ==
    (Answered /\ Strip(query.question) # << >>) =>
        LET q == query.question
        IN  /\ HasTime(q) => route.kind = "Time" /\ route.text = TimeText
            /\ (~HasTime(q) /\ HasDate(q)) =>
                   route.kind = "Date" /\ route.text = DateText
            /\ route.kind = "Exit" => ~HasTime(q) /\ ~HasDate(q) /\ HasFarewell(q)

\* C25 witness: a question with a time phrase and a date phrase was answered
\* with the time
C25_Witness ==
    /\ Answered
    /\ HasTime(query.question) /\ HasDate(query.question)
    /\ route.kind = "Time"

\* the steps of thread t into a capture call and into on_wake
GuardedCycle(t) ==
    /\ (pc[t] # "ifpaused" /\ pc'[t] = "ifpaused") =>
           pc[t] = "while" /\ det_running
    /\ (pc[t] # "capture" /\ pc'[t] = "capture") =>
           pc[t] = "ifpaused" /\ ~det_paused
    /\ (pc[t] # "invoke" /\ pc'[t] = "invoke") =>
           pc[t] = "check" /\ detected[t] /\ det_running /\ ~det_paused
    /\ (pc[t] = "check" /\ pc'[t] # "check" /\ (det_paused \/ ~det_running)) =>
           pc'[t] = "while"

\* C26: a loop thread enters a capture call only from the test of line 72
\* finding _paused False, which it reaches only from the test of line 71
\* finding _running True; and when the capture has returned, with a detection
\* or not, it goes on to on_wake only if line 78 finds _running True and
\* _paused False: with a pause() or a stop() in effect by then it goes back
\* to the loop test.
C26_CaptureGuards == [][\A t \in Threads : GuardedCycle(t)]_vars

\* C26 witness: a capture has reported a detection and pause() was called
\* meanwhile; the detector is running
C26_Witness ==
    \E t \in Threads :
        /\ pc[t] = "check" /\ detected[t]
        /\ \A u \in Threads \ {t} : pc[u] = "none"
        /\ flag_call = Call("pause", FALSE, FALSE)
        /\ det_running /\ det_paused

\* C27: after a pause() called while a thread was inside on_wake, and until
\* the next resume(), no loop thread enters a capture call and none goes on
\* to on_wake.
C27_PauseSurvivesCallback ==
    [][(flag_call.op = "pause" /\ flag_call.in_wake) =>
           \A t \in Threads :
               /\ ~(pc[t] # "capture" /\ pc'[t] = "capture")
               /\ ~(pc[t] # "invoke" /\ pc'[t] = "invoke")]_vars

\* C28: a loop thread that a later start() has replaced (it is not the
\* detector's _thread any more) does not pass the loop test again: only the
\* thread created by the last start() goes on looping.
C28_OneLoopThread ==
    [][\A t \in Threads :
           (pc[t] = "while" /\ pc'[t] = "ifpaused") => det_thread = t]_vars

\* the positions at which a thread is inside a tts.speak call
SpeakPcs == {"ack", "reprompt", "answer", "signoff", "fallback", "apology"}

\* the speak calls in progress: those of the loop threads, and (0) that of
\* the thread inside VoiceAssistant.start() or stop()
Speaking ==
    {t \in Threads : pc[t] \in SpeakPcs}
        \cup (IF ctl \in {"start_speak", "stop_speak"} THEN {0} ELSE {})

\* C29: at no time are two speak calls in progress; the shutdown line of
\* VoiceAssistant.stop() does not overlap a line of a session.
C29_NoOverlappingSpeech == Cardinality(Speaking) <= 1

\* C30: the sign-off is spoken only in a turn whose question was routed to
\* Exit, and in a turn routed to Grounded or General what is spoken next is
\* the answer, whatever text the generator returned.
C30_OnlyFarewellEndsSession ==
    \A i \in 1..Len(log) :
        /\ log[i] = Ev("speak", SignoffText) =>
               i > 3 /\ log[i - 3] = Ev("route", "Exit")
        /\ (log[i].ev = "route" /\ log[i].arg \in {"Grounded", "General"}
                /\ Len(log) >= i + 3) =>
               log[i + 3] = Ev("speak", "<response>")

\* the HTTP request failed: no connection, a timeout, another transport
\* error, an HTTP error status, or a body that is not an object with a
\* string under "response"
RequestFailed(h) ==
    \/ h.post # "ok"
    \/ h.status \in {404, 500, 503}
    \/ h.body.shape # "string"

\* C24: whatever the HTTP request does, the call of call_ollama_with_context
\* or call_ollama_general returns a string and raises nothing; when the
\* request failed the string is one of the three apology messages, and
\* otherwise it is the stripped text of the body.
C24_GeneratorNeverRaises ==
    reply # NoReply =>
        /\ ~reply.raises
        /\ IF RequestFailed(http)
               THEN /\ reply.kind = "apology"
                    /\ reply.message \in {ConnectText, TimeoutText, ErrorText}
               ELSE /\ reply.kind = "text"
                    /\ reply.text = Strip(http.body.text)

\* C24 witness: the server answered 500 and the call returned the apology
C24_Witness ==
    /\ reply # NoReply
    /\ http.post = "ok" /\ http.status = 500
    /\ reply = ReturnsApology(ErrorText)

\* C34: for a question that is empty or consists of whitespace only, answer()
\* returns the clarification text, the retriever is not called and no
\* generator function is called; the result is not the exit marker.
C34_EmptyQuestionClarification ==
    (/\ Answered
     /\ \A i \in 1..Len(query.question) : query.question[i] \in Whitespace) =>
        /\ route.kind = "Clarification"
        /\ route.text = "I didn't catch that. Could you repeat?"
        /\ route.text # EXIT
        /\ route.retrieves = 0
        /\ route.generator = "none"

\* C34 witness: a question of blanks was answered with the clarification,
\* with the retriever available
C34_Witness ==
    /\ Answered
    /\ Len(query.question) > 0
    /\ \A i \in 1..Len(query.question) : query.question[i] \in Whitespace
    /\ rag_available
    /\ route.kind = "Clarification"

\* C31: answer() leaves _rag_available as it was: once a call has reached the
\* retriever (retrieve returned or raised), every later question without a
\* command keyword is routed through the retriever again, and the outcome of
\* a call is what answer() gives for this question, this retriever outcome
\* and this generator text on the pipeline as constructed, whatever was asked
\* before.
C31_AnswerKeepsPipelineState ==
    Answered =>
        /\ route = answer(query.question, rag_available, query.retr, query.gen)
        /\ (\E i \in 1..Len(log) :
                log[i].ev = "retrieve" /\ log[i].arg # "not called") =>
               /\ rag_available
               /\ NoCommandIn(query.question) => route.retrieves = 1

\* C31 witness: the retrieve call of the first question raised, and a later
\* question was answered from the passage the retriever returned
C31_Witness ==
    /\ Len(log) >= 4
    /\ log[1] = Ev("retrieve", "raised")
    /\ log[Len(log) - 1] = Ev("retrieve", "returned")
    /\ route.kind = "Grounded"

\* C32: _active_session is True only between line 106 and the finally block
\* of an executing _on_wake_word, so it is False whenever none is executing;
\* the guard of line 103 therefore lets every invocation made after a session
\* has ended through, and the invocation begins with the acknowledgment.
C32_ActiveSessionReset ==
    /\ [](active_session =>
              pc[1] \in {"ack", "loopcond", "listen", "reprompt", "answer",
                         "signoff", "fallback", "apology", "ow_finally",
                         "ow_raise"})
    /\ [](Len(log) >= 2 =>
              log[2] \in {Ev("speak", AckText), Ev("raise", "ack")})
    /\ [][(pc[1] = "ow_guard" /\ pc'[1] # "ow_guard") =>
              pc'[1] = "ow_set"]_vars

\* C32 witness: a session has ended after two silences (its counter still
\* stands at 2) and the next wake detection has started a new session, whose
\* acknowledgment is being spoken
C32_Witness ==
    /\ pc[1] = "ack"
    /\ active_session
    /\ consecutive_silence[1] = 2
    /\ log = << Ev("paused", "") >>

\* C33: once stop() has cleared _running, every loop thread ends unless
\* start() sets _running again; this includes a loop that is paused when
\* stop() is called, which sleeps on line 73 and tests _running next.
C33_LoopTerminatesAfterStop ==
    ~det_running ~> (det_running \/ \A t \in Threads : ~Alive(t))

\* C33 witness: stop() has returned, the detector is still paused and the
\* loop thread it created has ended
C33_Witness ==
    /\ stop_returned
    /\ ~det_running
    /\ det_paused
    /\ det_thread # 0
    /\ pc[det_thread] = "done"
    /\ start_effect = "created"

\* the orders in which a list of phrases can be configured
Orders(l) ==
    {[k \in 1..Len(l) |-> l[p[k]]] :
        p \in {q \in [1..Len(l) -> 1..Len(l)] :
                  \A a, b \in 1..Len(l) : q[a] = q[b] => a = b}}

\* C35: a capture cycle reports a detection exactly when a transcript was
\* obtained and some configured phrase, trimmed and lower-cased, is a
\* contiguous substring of the trimmed, lower-cased transcript; configuring
\* the same phrases in another order gives the same report.
C35_DetectionIffPhraseInTranscript ==
    reported # << >> =>
        /\ reported[1] =
               (/\ heard.outcome.kind = "text"
                /\ \E k \in 1..Len(heard.wake_words) :
                       \E i \in 0..Len(heard.outcome.text) :
                           LET phrase == Lower(Strip(heard.wake_words[k]))
                               text == Lower(Strip(heard.outcome.text))
                           IN  /\ i + Len(phrase) <= Len(text)
                               /\ \A j \in 1..Len(phrase) :
                                      text[i + j] = phrase[j])
        /\ \A l \in Orders(heard.wake_words) :
               listen_for_wake_word(WakeWordDetector_init(l), heard.outcome) =
                   reported[1]

\* C35 witness: the second configured phrase, written in mixed case between
\* blanks, is found inside a longer transcript
C35_Witness ==
    /\ reported = << TRUE >>
    /\ heard.wake_words = << <<"o", "k", " ", "a", "s", "s", "i", "s", "t", "a", "n", "t">>,
                             <<" ", "H", "e", "y", " ", "C", "o", "m", "p", "u", "t", "e", "r", " ">> >>
    /\ heard.outcome = Recognition("text", <<"t", "h", "e", "y", " ", "c", "o", "m", "p", "u", "t", "e", "r", "s">>)

=============================================================================
